---- MODULE Spec2Model ----
(***************************************************************************)
(* BucketProvider: an object-storage facade over an S3-style backend.      *)
(*                                                                         *)
(* A JavaScript string is modelled as the sequence of its UTF-16 code      *)
(* units (integers in 0..65535), a byte buffer as a sequence of integers   *)
(* in 0..255.  The storage backend and the ResponseMsgService notifier are *)
(* external collaborators: the backend is a map from key to bytes whose    *)
(* calls may fail with an error text, the notifier is observed through the *)
(* calls the provider makes on it.  Every operation is an async function:  *)
(* it runs to an await, and resumes when the awaited promise settles;      *)
(* other calls on the same provider may run in between.                    *)
(***************************************************************************)
EXTENDS Integers, Sequences, FiniteSets, TLC

VARIABLES config, s3, store, flag, last, put, nfile, nbody, calls, completed, writer

vars == <<config, s3, store, flag, last, put, nfile, nbody, calls, completed, writer>>

---------------------------------------------------------------------------
(* Bounds *)

\* longest payload appended to a prefix when the normalizer's inputs are enumerated
MaxPayloadLen == 4

\* calls started in a run
MaxCalls == 2

---------------------------------------------------------------------------
(* Characters: the code units of the ASCII characters the model writes     *)

Printable ==
  << " ","!","\"","#","$","%","&","'","(",")","*","+",",","-",".","/",
     "0","1","2","3","4","5","6","7","8","9",":",";","<","=",">","?",
     "@","A","B","C","D","E","F","G","H","I","J","K","L","M","N","O",
     "P","Q","R","S","T","U","V","W","X","Y","Z","[","\\","]","^","_" >>

LowerCase ==
  << "a","b","c","d","e","f","g","h","i","j","k","l","m","n","o",
     "p","q","r","s","t","u","v","w","x","y","z","{","|","}","~" >>

\* String.prototype.charCodeAt of a one-character string: " " is 32, "a" is 97
charCode ==
  [c \in { Printable[i] : i \in DOMAIN Printable }
            \cup { LowerCase[i] : i \in DOMAIN LowerCase } \cup { "\n", "\r" } |->
     IF c = "\n" THEN 10
     ELSE IF c = "\r" THEN 13
     ELSE IF \E i \in DOMAIN Printable : Printable[i] = c
     THEN (CHOOSE i \in DOMAIN Printable : Printable[i] = c) + 31
     ELSE (CHOOSE i \in DOMAIN LowerCase : LowerCase[i] = c) + 96]

\* the code units of a string written as a sequence of characters
Str(s) == [i \in 1..Len(s) |-> charCode[s[i]]]

---------------------------------------------------------------------------
(* base64, as Node's Buffer.from(s, "base64") and                          *)
(* Body.transformToString("base64") compute them                           *)

B64Alphabet ==
  Str(<< "A","B","C","D","E","F","G","H","I","J","K","L","M",
         "N","O","P","Q","R","S","T","U","V","W","X","Y","Z",
         "a","b","c","d","e","f","g","h","i","j","k","l","m",
         "n","o","p","q","r","s","t","u","v","w","x","y","z",
         "0","1","2","3","4","5","6","7","8","9","+","/" >>)

\* the decoder's table: the 6-bit value of each byte, "-" and "_" of the URL
\* alphabet included; 64 stands for "not a base64 character"
B64Value ==
  [b \in 0..255 |->
     IF \E i \in 1..64 : B64Alphabet[i] = b
     THEN (CHOOSE i \in 1..64 : B64Alphabet[i] = b) - 1
     ELSE IF b = charCode["-"] THEN 62
     ELSE IF b = charCode["_"] THEN 63
     ELSE 64]

\* the decoder reads the low byte of each code unit
unbase64(c) == B64Value[c % 256]

\* the values of the legal characters of s, read up to the first "=":
\* the decoder skips every other character and stops at "="
RECURSIVE LegalValues(_)
LegalValues(s) ==
  IF s = <<>> THEN <<>>
  ELSE IF Head(s) % 256 = charCode["="] THEN <<>>
  ELSE IF unbase64(Head(s)) < 64 THEN <<unbase64(Head(s))>> \o LegalValues(Tail(s))
  ELSE LegalValues(Tail(s))

\* groups of four values give three bytes; a tail of two gives one byte,
\* a tail of three gives two, a tail of one gives none
RECURSIVE DecodeValues(_)
DecodeValues(v) ==
  IF Len(v) < 2 THEN <<>>
  ELSE IF Len(v) = 2 THEN << v[1] * 4 + (v[2] \div 16) >>
  ELSE IF Len(v) = 3 THEN << v[1] * 4 + (v[2] \div 16),
                             (v[2] % 16) * 16 + (v[3] \div 4) >>
  ELSE << v[1] * 4 + (v[2] \div 16),
          (v[2] % 16) * 16 + (v[3] \div 4),
          (v[3] % 4) * 64 + v[4] >> \o DecodeValues(SubSeq(v, 5, Len(v)))

\* Buffer.from(s, "base64")
Base64Decode(s) == DecodeValues(LegalValues(s))

\* Body.transformToString("base64"): standard alphabet, "=" padding
RECURSIVE Base64Encode(_)
Base64Encode(b) ==
  IF Len(b) = 0 THEN <<>>
  ELSE IF Len(b) = 1 THEN
    << B64Alphabet[(b[1] \div 4) + 1], B64Alphabet[(b[1] % 4) * 16 + 1],
       charCode["="], charCode["="] >>
  ELSE IF Len(b) = 2 THEN
    << B64Alphabet[(b[1] \div 4) + 1],
       B64Alphabet[(b[1] % 4) * 16 + (b[2] \div 16) + 1],
       B64Alphabet[(b[2] % 16) * 4 + 1], charCode["="] >>
  ELSE
    << B64Alphabet[(b[1] \div 4) + 1],
       B64Alphabet[(b[1] % 4) * 16 + (b[2] \div 16) + 1],
       B64Alphabet[(b[2] % 16) * 4 + (b[3] \div 64) + 1],
       B64Alphabet[(b[3] % 64) + 1] >> \o Base64Encode(SubSeq(b, 4, Len(b)))

---------------------------------------------------------------------------
(* The two regular expressions of uploadFile *)

\* the code units "." does not match in a JavaScript regular expression:
\* line feed, carriage return, U+2028 and U+2029
LineTerminators == { 10, 13, 8232, 8233 }

\* [\w+] : an ASCII letter, a digit, "_" or "+"
WordPlus(c) ==
  \/ c \in charCode["A"]..charCode["Z"]
  \/ c \in charCode["a"]..charCode["z"]
  \/ c \in charCode["0"]..charCode["9"]
  \/ c = charCode["_"]
  \/ c = charCode["+"]

DataImage == Str(<< "d","a","t","a",":","i","m","a","g","e","/" >>)
Base64Tag == Str(<< ";","b","a","s","e","6","4","," >>)

\* file.match(/^data:image\/([\w+]+);base64,([\s\S]+)/) is not null
base64Reg(s) ==
  /\ Len(s) >= Len(DataImage)
  /\ SubSeq(s, 1, Len(DataImage)) = DataImage
  /\ \E k \in 1..Len(s) :
       /\ Len(DataImage) + k + Len(Base64Tag) + 1 <= Len(s)
       /\ \A j \in 1..k : WordPlus(s[Len(DataImage) + j])
       /\ SubSeq(s, Len(DataImage) + k + 1, Len(DataImage) + k + Len(Base64Tag)) = Base64Tag

\* the positions where /,(.*)$/ can match: a comma with no line terminator after it
CommaToEnd(s) ==
  { i \in 1..Len(s) : /\ s[i] = charCode[","]
                      /\ \A j \in (i + 1)..Len(s) : s[j] \notin LineTerminators }

---------------------------------------------------------------------------
(* The file argument of uploadFile: string | { path: string } *)

StringFile(s) == [type |-> "string", chars |-> s, hasPath |-> FALSE, path |-> ""]
ObjectFile(p) == [type |-> "object", chars |-> <<>>, hasPath |-> TRUE, path |-> p]
PathlessObject == [type |-> "object", chars |-> <<>>, hasPath |-> FALSE, path |-> ""]

\* the local file system: one staged file; any other path names no file
StagedPath == "/tmp/upload_1"
MissingPath == "/nonexistent/x"
LocalFile(p) ==
  IF p = StagedPath THEN [exists |-> TRUE, bytes |-> <<65, 66, 67>>]
  ELSE [exists |-> FALSE, bytes |-> <<>>]

\* the error of a read stream opened on a path that names no file
ENOENT(p) == "ENOENT: no such file or directory, open '" \o p \o "'"

\* const match = typeof file === "string" && file.match(base64Reg)
match(file) == file.type = "string" /\ base64Reg(file.chars)

\* fileWithoutMimeType = typeof file === "string" ? file.match(/,(.*)$/) : null,
\* as the set of match positions: the regular expression takes the leftmost
fileWithoutMimeType(file) ==
  IF file.type = "string" THEN CommaToEnd(file.chars) ELSE {}

Min(S) == CHOOSE x \in S : \A y \in S : x <= y

\* let fileData = file as string; if (fileWithoutMimeType) fileData = fileWithoutMimeType[1]
\* (only read when file is a string)
fileData(file) ==
  IF fileWithoutMimeType(file) # {}
  THEN SubSeq(file.chars, Min(fileWithoutMimeType(file)) + 1, Len(file.chars))
  ELSE file.chars

\* lines 56-70: the upload body, or the TypeError Buffer.from raises for an
\* argument that is neither a string nor buffer-like
fileStream(file) ==
  IF ~match(file) /\ file.type = "object" /\ file.hasPath /\ file.path # ""
  THEN [kind |-> "ReadStream", path |-> file.path, bytes |-> <<>>]
  ELSE IF file.type = "string"
  THEN [kind |-> "Buffer", path |-> "", bytes |-> Base64Decode(fileData(file))]
  ELSE [kind |-> "TypeError", path |-> "", bytes |-> <<>>]

\* uploadImage of the earlier revision, lines 31-39: file.match is called on
\* the argument whatever its type, so any object raises a TypeError; a string
\* is never an object, so it is decoded whole
imageStream(file) ==
  IF file.type # "string"
  THEN [kind |-> "TypeError", path |-> "", bytes |-> <<>>]
  ELSE [kind |-> "Buffer", path |-> "", bytes |-> Base64Decode(file.chars)]

---------------------------------------------------------------------------
(* The normalizer on its own: every input up to the bound *)

\* "Q", "U", ",", a line feed, "=", U+2028 and U+0151 (low byte: "Q")
NormChars == { charCode["Q"], charCode["U"], charCode[","], charCode["\n"],
               charCode["="], 8232, 337 }

PngPrefix == DataImage \o Str(<< "p","n","g" >>) \o Base64Tag
TextPrefix == Str(<< "d","a","t","a",":","t","e","x","t","/","x" >>) \o Base64Tag

NormPrefixes == { <<>>, PngPrefix, TextPrefix }

Payloads == UNION { [1..k -> NormChars] : k \in 0..MaxPayloadLen }

NormInputs ==
  { StringFile(p \o s) : p \in NormPrefixes, s \in Payloads }
    \cup { ObjectFile(StagedPath), ObjectFile(""), PathlessObject }

NotRun == [kind |-> "not run", path |-> "", bytes |-> <<>>]

---------------------------------------------------------------------------
(* Configuration, arguments, backend replies *)

FILE_UPLOAD_TYPE_BUCKET == "BUCKET"
StorageTypes == { "BUCKET", "LOCAL" }
BUCKET_NAME == "bucket"

Keys == { "a.png", "b.bin" }
ContentTypes == { "image/png" }

\* expiresIn = 10
DefaultExpiresIn == 10
ExpiresArgs == { 1, 3600 }
\* the second argument of getPresignedUrlOfFile: omitted, or a number of seconds
ExpiresInArgs ==
  { [given |-> FALSE, expiresIn |-> 0] }
    \cup { [given |-> TRUE, expiresIn |-> e] : e \in ExpiresArgs }

QUJD == Str(<< "Q","U","J","D" >>)

\* the uploads the operations are run on: a data URI, the empty string, a
\* staged file, a path that names no file, and objects whose path is empty
\* or missing
Files ==
  { StringFile(PngPrefix \o QUJD), StringFile(<<>>),
    ObjectFile(StagedPath), ObjectFile(MissingPath), ObjectFile(""), PathlessObject }

\* lines 56-70 on each of them
FileBody == [f \in Files |-> fileStream(f)]
ImageBody == [f \in Files |-> imageStream(f)]

\* what the backend answers to a request: "ok" or the text of its error
OK == "ok"

\* the TypeError of a property read on this.s3 when it is undefined
ClientMissing(prop) ==
  "Cannot read properties of undefined (reading '" \o prop \o "')"
\* the error of Upload's constructor when it checks its client
UploadNeedsClient == "InputError: Upload requires a AWS client to do uploads with."

UploadReplies(client, body) ==
  IF client = "undefined" THEN { ClientMissing("send") }
  ELSE IF body.kind = "ReadStream" /\ ~LocalFile(body.path).exists
  THEN { ENOENT(body.path) }
  ELSE { OK, "AccessDenied" }
SignReplies(client) ==
  IF client = "undefined" THEN { ClientMissing("config") }
  ELSE { OK, "CredentialsProviderError" }
BodyReplies == { OK, "ECONNRESET" }
GetReplies(st, k) == IF st[k].present THEN { OK, "AccessDenied" } ELSE { "NoSuchKey" }
DeleteReplies(st, k) ==
  IF st[k].present THEN { OK, "AccessDenied" } ELSE { OK, "NoSuchKey" }

Absent == [present |-> FALSE, bytes |-> <<>>, ContentType |-> ""]

---------------------------------------------------------------------------
(* JavaScript values returned to the caller *)

RetBool(b) == [t |-> "boolean", b |-> b]
RetString(s) == [t |-> "string", s |-> s]
RetObject(o) == [t |-> "object", o |-> o]
NoRet == [t |-> "undefined"]

IsFalse(r) == r.t = "boolean" /\ ~r.b

Truthy(r) ==
  CASE r.t = "boolean" -> r.b
    [] r.t = "string" -> Len(r.s) > 0
    [] r.t = "object" -> TRUE
    [] OTHER -> FALSE

---------------------------------------------------------------------------
(* The calls made on the ResponseMsgService *)

addSuccessMsg(m) == [call |-> "addSuccessMsg", message |-> m, type |-> "success", show |-> TRUE]
addErrorMsg(m) == [call |-> "addErrorMsg", message |-> m, type |-> "error", show |-> TRUE]
isSuccess(v) == [call |-> "isSuccess", value |-> v]

\* the flag after a call's notifier calls: the value of the last isSuccess
RECURSIVE FlagAfter(_, _)
FlagAfter(f, notifs) ==
  IF notifs = <<>> THEN f
  ELSE FlagAfter(IF Head(notifs).call = "isSuccess" THEN Head(notifs).value ELSE f,
                 Tail(notifs))

---------------------------------------------------------------------------
(* constructor *)

constructorAlways(cfg) == "S3Client"

\* if (config.STORAGE_TYPE === FILE_UPLOAD_TYPE.BUCKET) this.s3 = new S3Client(...)
constructor(cfg) ==
  IF cfg.STORAGE_TYPE = FILE_UPLOAD_TYPE_BUCKET THEN "S3Client" ELSE "undefined"

---------------------------------------------------------------------------
(* uploadFile *)

\* lines 73-78
uploadParams(file, fileName, contentType) ==
  [Bucket |-> BUCKET_NAME, Key |-> fileName, Body |-> FileBody[file],
   ContentType |-> contentType]

\* the bytes the backend reads from an upload body
BodyBytes(body) ==
  IF body.kind = "ReadStream" THEN LocalFile(body.path).bytes ELSE body.bytes

\* the backend storing the object of an upload request
UploadDone(st, params) ==
  [st EXCEPT ![params.Key] =
     [present |-> TRUE, bytes |-> BodyBytes(params.Body), ContentType |-> params.ContentType]]

Location(fileName) == << "https://", BUCKET_NAME, "/", fileName >>

\* lines 84-90
uploadFileThen(fileName) ==
  [outcome |-> "return",
   ret |-> RetObject([status |-> TRUE, url |-> Location(fileName), fileName |-> fileName]),
   notifs |-> << addSuccessMsg(<< "File uploaded successfully." >>), isSuccess(TRUE) >>]

uploadFileCatchShaped(error) ==
  [outcome |-> "return", ret |-> RetObject([status |-> FALSE, error |-> << error >>]),
   notifs |-> << addErrorMsg(<< error >>), isSuccess(FALSE) >>]

uploadFileCatchGeneric(error) ==
  [outcome |-> "return", ret |-> RetBool(FALSE),
   notifs |-> << addErrorMsg(<< "Upload failed." >>), isSuccess(FALSE) >>]

\* lines 91-99
uploadFileCatch(error) ==
  [outcome |-> "return", ret |-> RetBool(FALSE),
   notifs |-> << addErrorMsg(<< error >>), isSuccess(FALSE) >>]

\* the rejection of the async function when line 69 throws: nothing is caught
uploadFileThrow ==
  [outcome |-> "throw", ret |-> NoRet, notifs |-> <<>>]

---------------------------------------------------------------------------
(* getPresignedUrlOfFile *)

expiresInFixed(given, expiresIn) == 10

\* expiresIn = 10 : the default applies when the argument is omitted
expiresInParam(given, expiresIn) == IF given THEN expiresIn ELSE DefaultExpiresIn

SignedUrl(path, expiresIn) ==
  << "https://", BUCKET_NAME, "/", path, "?X-Amz-Expires=", ToString(expiresIn) >>

\* lines 125-126
getPresignedUrlOfFileThen(url) ==
  [outcome |-> "return", ret |-> RetString(url), notifs |-> << isSuccess(TRUE) >>]

\* lines 127-135
getPresignedUrlOfFileCatch(e) ==
  [outcome |-> "return", ret |-> RetBool(FALSE),
   notifs |-> << isSuccess(FALSE),
                 addErrorMsg(<< "Could not retrieve file from S3: ", e >>) >>]

---------------------------------------------------------------------------
(* deleteFile *)

\* the backend deleting the object of a delete request
DeleteObject(st, k) == [st EXCEPT ![k] = Absent]

\* lines 154-160
deleteFileThen ==
  [outcome |-> "return", ret |-> RetBool(TRUE),
   notifs |-> << addSuccessMsg(<< "File Deleted successfully." >>), isSuccess(TRUE) >>]

deleteFileCatchRethrow(error) ==
  [outcome |-> "throw", ret |-> NoRet, notifs |-> <<>>]

\* lines 161-169
deleteFileCatch(error) ==
  [outcome |-> "return", ret |-> RetBool(FALSE),
   notifs |-> << addErrorMsg(<< error >>), isSuccess(FALSE) >>]

---------------------------------------------------------------------------
(* getFile *)

\* line 188, once send has resolved
getFileResolved == << isSuccess(TRUE) >>

getFileThenRaw(bytes) ==
  [outcome |-> "return", ret |-> RetString(bytes), notifs |-> <<>>]

\* line 189, Body.transformToString resolving: no further notifier call
getFileThen(bytes) ==
  [outcome |-> "return", ret |-> RetString(Base64Encode(bytes)), notifs |-> <<>>]

getFileCatchQuiet(e) ==
  [outcome |-> "return", ret |-> RetBool(FALSE),
   notifs |-> << isSuccess(TRUE) >>]

\* lines 190-198
getFileCatch(e) ==
  [outcome |-> "return", ret |-> RetBool(FALSE),
   notifs |-> << isSuccess(FALSE),
                 addErrorMsg(<< "Could not retrieve file from S3: ", e >>) >>]

---------------------------------------------------------------------------
(* uploadImage, getImage and deleteImage: the Put, Get and Delete of the    *)
(* earlier revision of the provider, whose constructor always builds its    *)
(* client                                                                   *)

\* lines 42-47
imageParams(file, fileName) ==
  [Bucket |-> BUCKET_NAME, Key |-> fileName, Body |-> ImageBody[file],
   ContentType |-> "", ACL |-> "public-read"]

\* lines 50-56
uploadImageThen(fileName) ==
  [outcome |-> "return",
   ret |-> RetObject([status |-> TRUE, imageUrl |-> Location(fileName),
                      fileName |-> fileName]),
   notifs |-> << addSuccessMsg(<< "File uploaded successfully." >>), isSuccess(TRUE) >>]

\* lines 57-65
uploadImageCatch(error) ==
  [outcome |-> "return", ret |-> RetBool(FALSE),
   notifs |-> << addErrorMsg(<< error >>), isSuccess(FALSE) >>]

\* the rejection of the async function when line 32 throws
uploadImageThrow ==
  [outcome |-> "throw", ret |-> NoRet, notifs |-> <<>>]

\* lines 80-81
getImageThen(obj) ==
  [outcome |-> "return",
   ret |-> RetObject([Body |-> obj.bytes, ContentType |-> obj.ContentType]),
   notifs |-> << isSuccess(TRUE) >>]

\* lines 82-88
getImageCatch(e) ==
  [outcome |-> "return",
   ret |-> RetObject([status |-> FALSE,
                      error |-> << "Could not retrieve file from S3: ", e >>]),
   notifs |-> << isSuccess(FALSE) >>]

\* lines 103-109
deleteImageThen ==
  [outcome |-> "return", ret |-> RetBool(TRUE),
   notifs |-> << addSuccessMsg(<< "File Deleted successfully." >>), isSuccess(TRUE) >>]

\* lines 110-118
deleteImageCatch(error) ==
  [outcome |-> "return", ret |-> RetBool(FALSE),
   notifs |-> << addErrorMsg(<< error >>), isSuccess(FALSE) >>]

---------------------------------------------------------------------------
(* State *)

\* config  : the configuration the constructor reads
\* s3      : this.s3, "S3Client" or "undefined"
\* store   : the bucket, key -> object
\* flag    : the notifier's last-call-succeeded flag
\* calls   : the calls made on the provider, in the order they start: each is
\*           idle (not started), awaiting its backend request, converting
\*           (getFile awaiting Body.transformToString) or done
\* last    : the call that completed most recently: arguments, requests sent,
\*           notifier calls, result, the flag as it left it, whether the call
\*           completed before it was the same operation on the same key, and
\*           (for a Get) whether no upload or delete of its key was in flight
\*           at any time during it
\* completed : the number of that call, 0 when none has completed
\* writer  : the call that wrote the flag most recently and, once it is done,
\*           whether it succeeded
\* put     : per key, the decoded payload of the latest successful inline
\*           upload when no upload or delete of the key completed after it
\* nfile, nbody : an input of the normalizer and the body computed from it

NoArgs == [none |-> TRUE]

NoSlot ==
  [pc |-> "idle", op |-> "none", Key |-> "", args |-> NoArgs, sent |-> <<>>,
   fetched |-> <<>>, notifs |-> <<>>, quiet |-> FALSE]

DoneSlot == [NoSlot EXCEPT !.pc = "done"]

NoPut == [known |-> FALSE, bytes |-> <<>>]

NoCall ==
  [op |-> "none", Key |-> "", args |-> NoArgs, outcome |-> "none",
   ret |-> NoRet, notifs |-> <<>>, sent |-> <<>>, backend |-> "not reached",
   error |-> "", fetched |-> <<>>, quiet |-> FALSE, flag |-> FALSE,
   repeated |-> FALSE]

NoWriter == [id |-> 0, succeeded |-> FALSE]

\* what the bucket holds when the provider is constructed: nothing, or an
\* object under one of the keys
Stored == [present |-> TRUE, bytes |-> <<65, 66, 67>>, ContentType |-> "image/png"]
InitialStores ==
  { [k \in Keys |-> Absent], [k \in Keys |-> IF k = "a.png" THEN Stored ELSE Absent] }

Init ==
  /\ config \in [STORAGE_TYPE : StorageTypes]
  /\ s3 = constructor(config)
  /\ store \in InitialStores
  /\ flag \in BOOLEAN
  /\ last = NoCall
  /\ put = [k \in Keys |-> NoPut]
  /\ nfile = StringFile(<<>>)
  /\ nbody = NotRun
  /\ calls = [i \in 1..MaxCalls |-> NoSlot]
  /\ completed = 0
  /\ writer = NoWriter

---------------------------------------------------------------------------
(* The steps of a call *)

Modifying == { "uploadFile", "deleteFile", "uploadImage", "deleteImage" }
Reading == { "getFile", "getImage" }

InFlight(c) == c.pc \in { "awaiting", "converting" }

\* the next call to start: calls start in the order of their numbers
NextSlot ==
  { i \in DOMAIN calls : calls[i].pc = "idle" /\ \A j \in 1..(i - 1) : calls[j].pc # "idle" }

Awaiting(op) == { i \in DOMAIN calls : calls[i].pc = "awaiting" /\ calls[i].op = op }

\* no upload or delete of the key is in flight
Quiet(key) ==
  \A j \in DOMAIN calls :
    ~(InFlight(calls[j]) /\ calls[j].op \in Modifying /\ calls[j].Key = key)

\* a call that has run up to its first await
Started(op, key, args, sent) ==
  [pc |-> "awaiting", op |-> op, Key |-> key, args |-> args, sent |-> sent,
   fetched |-> <<>>, notifs |-> <<>>, quiet |-> (op \in Reading /\ Quiet(key))]

\* call i suspends at its await, its request issued
Suspend(i, c) ==
  /\ calls' = [j \in DOMAIN calls |->
                 IF j = i THEN c
                 ELSE IF /\ c.op \in Modifying
                         /\ InFlight(calls[j])
                         /\ calls[j].op \in Reading
                         /\ calls[j].Key = c.Key
                 THEN [calls[j] EXCEPT !.quiet = FALSE]
                 ELSE calls[j]]
  /\ UNCHANGED <<flag, last, completed, writer, store, put>>

Writes(notifs) == \E n \in DOMAIN notifs : notifs[n].call = "isSuccess"

\* call i returns or throws: r is what its try or catch block produced, c the
\* call as it stood, backend and error what became of its backend request
Complete(i, c, r, backend, error) ==
  /\ calls' = [calls EXCEPT ![i] = DoneSlot]
  /\ flag' = FlagAfter(flag, r.notifs)
  /\ last' = [op |-> c.op, Key |-> c.Key, args |-> c.args, outcome |-> r.outcome,
              ret |-> r.ret, notifs |-> c.notifs \o r.notifs, sent |-> c.sent,
              backend |-> backend, error |-> error, fetched |-> c.fetched,
              quiet |-> c.quiet, flag |-> FlagAfter(flag, r.notifs),
              repeated |-> (last.op = c.op /\ last.Key = c.Key)]
  /\ completed' = i
  /\ writer' = IF Writes(r.notifs) \/ writer.id = i
               THEN [id |-> i, succeeded |-> (backend = "ok")]
               ELSE writer

\* the record of the key after an upload or delete of it completed
Forget(key) == [put EXCEPT ![key] = NoPut]

---------------------------------------------------------------------------
(* uploadFile *)

\* lines 56-83: normalization, then new Upload(..).done() and its await.  A
\* TypeError of line 69 rejects the call at once.  With no client, Upload's
\* constructor may refuse it (the catch block runs at once) or done() may
\* fail on it later
uploadFileStart ==
  \E i \in NextSlot, file \in Files, fileName \in Keys, contentType \in ContentTypes :
    LET params == uploadParams(file, fileName, contentType)
        c == Started("uploadFile", fileName,
                     [file |-> file, contentType |-> contentType, body |-> params.Body],
                     <<>>)
    IN /\ \/ /\ params.Body.kind = "TypeError"
             /\ Complete(i, c, uploadFileThrow, "not reached", "TypeError")
             /\ UNCHANGED <<store, put>>
          \/ /\ params.Body.kind # "TypeError"
             /\ s3 = "undefined"
             /\ Complete(i, c, uploadFileCatch(UploadNeedsClient), "no client",
                         UploadNeedsClient)
             /\ store' = store
             /\ put' = Forget(fileName)
          \/ /\ params.Body.kind # "TypeError"
             /\ Suspend(i, IF s3 = "undefined" THEN c
                           ELSE [c EXCEPT !.sent = << [cmd |-> "Upload", params |-> params] >>])
       /\ UNCHANGED <<config, s3, nfile, nbody>>

\* lines 84-99: Upload.done() settled
uploadFileResume ==
  \E i \in Awaiting("uploadFile") :
    \E reply \in UploadReplies(s3, calls[i].args.body) :
      LET c == calls[i]
          ok == reply = OK
      IN /\ store' = IF ok THEN UploadDone(store, c.sent[1].params) ELSE store
         /\ put' = IF ok /\ c.args.file.type = "string"
                   THEN [put EXCEPT ![c.Key] = [known |-> TRUE, bytes |-> c.args.body.bytes]]
                   ELSE Forget(c.Key)
         /\ Complete(i, c,
                     IF ok THEN uploadFileThen(c.Key) ELSE uploadFileCatch(reply),
                     IF s3 = "undefined" THEN "no client"
                     ELSE IF ok THEN "ok" ELSE "failed",
                     IF ok THEN "" ELSE reply)
         /\ UNCHANGED <<config, s3, nfile, nbody>>

uploadFile == uploadFileStart \/ uploadFileResume

---------------------------------------------------------------------------
(* getPresignedUrlOfFile *)

\* lines 116-124: up to the await of getSignedUrl, an async function: with
\* no client its promise rejects
getPresignedUrlOfFileStart ==
  \E i \in NextSlot, path \in Keys, arg \in ExpiresInArgs :
    /\ Suspend(i, Started("getPresignedUrlOfFile", path, arg,
                          IF s3 = "undefined" THEN <<>>
                          ELSE << [cmd |-> "getSignedUrl", command |-> "GetObjectCommand",
                                   Bucket |-> BUCKET_NAME, Key |-> path,
                                   expiresIn |-> expiresInParam(arg.given, arg.expiresIn)] >>))
    /\ UNCHANGED <<config, s3, nfile, nbody>>

\* lines 125-135: getSignedUrl settled
getPresignedUrlOfFileResume ==
  \E i \in Awaiting("getPresignedUrlOfFile") :
    \E reply \in SignReplies(s3) :
      LET c == calls[i]
          ok == reply = OK
      IN /\ Complete(i, c,
                     IF ok
                     THEN getPresignedUrlOfFileThen(SignedUrl(c.Key, c.sent[1].expiresIn))
                     ELSE getPresignedUrlOfFileCatch(reply),
                     IF s3 = "undefined" THEN "no client"
                     ELSE IF ok THEN "ok" ELSE "failed",
                     IF ok THEN "" ELSE reply)
         /\ UNCHANGED <<config, s3, store, put, nfile, nbody>>

getPresignedUrlOfFile == getPresignedUrlOfFileStart \/ getPresignedUrlOfFileResume

---------------------------------------------------------------------------
(* deleteFile *)

\* lines 148-153: up to the await of send; with no client the read of
\* this.s3.send throws inside try and the catch block runs at once
deleteFileStart ==
  \E i \in NextSlot, fileName \in Keys :
    LET c == Started("deleteFile", fileName, [fileName |-> fileName], <<>>)
    IN /\ IF s3 = "undefined"
          THEN /\ Complete(i, c, deleteFileCatch(ClientMissing("send")), "no client",
                           ClientMissing("send"))
               /\ store' = store
               /\ put' = Forget(fileName)
          ELSE Suspend(i, [c EXCEPT !.sent =
                             << [cmd |-> "send", command |-> "DeleteObjectCommand",
                                 Bucket |-> BUCKET_NAME, Key |-> fileName] >>])
       /\ UNCHANGED <<config, s3, nfile, nbody>>

\* lines 154-169: send settled
deleteFileResume ==
  \E i \in Awaiting("deleteFile") :
    \E reply \in DeleteReplies(store, calls[i].Key) :
      LET c == calls[i]
          ok == reply = OK
      IN /\ store' = IF ok THEN DeleteObject(store, c.Key) ELSE store
         /\ put' = Forget(c.Key)
         /\ Complete(i, c, IF ok THEN deleteFileThen ELSE deleteFileCatch(reply),
                     IF ok THEN "ok" ELSE "failed", IF ok THEN "" ELSE reply)
         /\ UNCHANGED <<config, s3, nfile, nbody>>

deleteFile == deleteFileStart \/ deleteFileResume

---------------------------------------------------------------------------
(* getFile *)

\* lines 182-187: up to the await of send; with no client the catch block
\* runs at once
getFileStart ==
  \E i \in NextSlot, fileName \in Keys :
    LET c == Started("getFile", fileName, [fileName |-> fileName], <<>>)
    IN /\ IF s3 = "undefined"
          THEN /\ Complete(i, c, getFileCatch(ClientMissing("send")), "no client",
                           ClientMissing("send"))
               /\ UNCHANGED <<store, put>>
          ELSE Suspend(i, [c EXCEPT !.sent =
                             << [cmd |-> "send", command |-> "GetObjectCommand",
                                 Bucket |-> BUCKET_NAME, Key |-> fileName] >>])
       /\ UNCHANGED <<config, s3, nfile, nbody>>

\* lines 187-189: send settled; on success isSuccess(true) is called and the
\* call awaits Body.transformToString
getFileFetched ==
  \E i \in Awaiting("getFile") :
    \E reply \in GetReplies(store, calls[i].Key) :
      LET c == calls[i]
      IN /\ IF reply = OK
            THEN /\ calls' = [calls EXCEPT ![i] =
                                [c EXCEPT !.pc = "converting",
                                          !.fetched = store[c.Key].bytes,
                                          !.notifs = getFileResolved]]
                 /\ flag' = FlagAfter(flag, getFileResolved)
                 /\ writer' = [id |-> i, succeeded |-> FALSE]
                 /\ UNCHANGED <<last, completed>>
            ELSE Complete(i, c, getFileCatch(reply), "failed", reply)
         /\ UNCHANGED <<config, s3, store, put, nfile, nbody>>

\* lines 189-198: Body.transformToString settled; the string is returned
\* with no further notifier call, or the catch block runs
getFileConverted ==
  \E i \in DOMAIN calls, bodyReply \in BodyReplies :
    LET c == calls[i]
    IN /\ c.pc = "converting"
       /\ IF bodyReply = OK
          THEN Complete(i, c, getFileThen(c.fetched), "ok", "")
          ELSE Complete(i, c, getFileCatch(bodyReply), "failed", bodyReply)
       /\ UNCHANGED <<config, s3, store, put, nfile, nbody>>

getFile == getFileStart \/ getFileFetched \/ getFileConverted

---------------------------------------------------------------------------
(* uploadImage, getImage, deleteImage *)

\* lines 31-49: a TypeError of line 32 rejects the call at once
uploadImageStart ==
  \E i \in NextSlot, file \in Files, fileName \in Keys :
    LET params == imageParams(file, fileName)
        c == Started("uploadImage", fileName, [file |-> file, body |-> params.Body], <<>>)
    IN /\ IF params.Body.kind = "TypeError"
          THEN /\ Complete(i, c, uploadImageThrow, "not reached", "TypeError")
               /\ UNCHANGED <<store, put>>
          ELSE Suspend(i, [c EXCEPT !.sent = << [cmd |-> "upload", params |-> params] >>])
       /\ UNCHANGED <<config, s3, nfile, nbody>>

\* lines 50-65: upload settled
uploadImageResume ==
  \E i \in Awaiting("uploadImage"), reply \in { OK, "AccessDenied" } :
    LET c == calls[i]
        ok == reply = OK
    IN /\ store' = IF ok THEN UploadDone(store, c.sent[1].params) ELSE store
       /\ put' = Forget(c.Key)
       /\ Complete(i, c, IF ok THEN uploadImageThen(c.Key) ELSE uploadImageCatch(reply),
                   IF ok THEN "ok" ELSE "failed", IF ok THEN "" ELSE reply)
       /\ UNCHANGED <<config, s3, nfile, nbody>>

uploadImage == uploadImageStart \/ uploadImageResume

\* lines 74-79: up to the await of getObject
getImageStart ==
  \E i \in NextSlot, fileName \in Keys :
    /\ Suspend(i, Started("getImage", fileName, [fileName |-> fileName],
                          << [cmd |-> "getObject", command |-> "getObject",
                              Bucket |-> BUCKET_NAME, Key |-> fileName] >>))
    /\ UNCHANGED <<config, s3, nfile, nbody>>

\* lines 80-88: getObject settled
getImageResume ==
  \E i \in Awaiting("getImage") :
    \E reply \in GetReplies(store, calls[i].Key) :
      LET c == calls[i]
          ok == reply = OK
      IN /\ Complete(i, [c EXCEPT !.fetched = IF ok THEN store[c.Key].bytes ELSE <<>>],
                     IF ok THEN getImageThen(store[c.Key]) ELSE getImageCatch(reply),
                     IF ok THEN "ok" ELSE "failed", IF ok THEN "" ELSE reply)
         /\ UNCHANGED <<config, s3, store, put, nfile, nbody>>

getImage == getImageStart \/ getImageResume

\* lines 97-102: up to the await of deleteObject
deleteImageStart ==
  \E i \in NextSlot, fileName \in Keys :
    /\ Suspend(i, Started("deleteImage", fileName, [fileName |-> fileName],
                          << [cmd |-> "deleteObject", command |-> "deleteObject",
                              Bucket |-> BUCKET_NAME, Key |-> fileName] >>))
    /\ UNCHANGED <<config, s3, nfile, nbody>>

\* lines 103-118: deleteObject settled
deleteImageResume ==
  \E i \in Awaiting("deleteImage") :
    \E reply \in DeleteReplies(store, calls[i].Key) :
      LET c == calls[i]
          ok == reply = OK
      IN /\ store' = IF ok THEN DeleteObject(store, c.Key) ELSE store
         /\ put' = Forget(c.Key)
         /\ Complete(i, c, IF ok THEN deleteImageThen ELSE deleteImageCatch(reply),
                     IF ok THEN "ok" ELSE "failed", IF ok THEN "" ELSE reply)
         /\ UNCHANGED <<config, s3, nfile, nbody>>

deleteImage == deleteImageStart \/ deleteImageResume

Next ==
  \/ uploadFile
  \/ getPresignedUrlOfFile
  \/ deleteFile
  \/ getFile
  \/ uploadImage
  \/ getImage
  \/ deleteImage

Spec == Init /\ [][Next]_vars

---------------------------------------------------------------------------
(* The normalizer alone, on every input up to MaxPayloadLen *)

InitNorm ==
  /\ config = [STORAGE_TYPE |-> FILE_UPLOAD_TYPE_BUCKET]
  /\ s3 = constructor(config)
  /\ store = [k \in Keys |-> Absent]
  /\ flag = TRUE
  /\ last = NoCall
  /\ put = [k \in Keys |-> NoPut]
  /\ nfile \in NormInputs
  /\ nbody = NotRun
  /\ calls = [i \in 1..MaxCalls |-> NoSlot]
  /\ completed = 0
  /\ writer = NoWriter

\* lines 56-70 of uploadFile
normalize ==
  /\ nbody = NotRun
  /\ nbody' = fileStream(nfile)
  /\ UNCHANGED <<config, s3, store, flag, last, put, nfile, calls, completed, writer>>

NextNorm == normalize

SpecNorm == InitNorm /\ [][NextNorm]_vars

---------------------------------------------------------------------------
(* Properties *)

Ops4 == { "uploadFile", "getFile", "getPresignedUrlOfFile", "deleteFile" }

Range(s) == { s[i] : i \in DOMAIN s }
Count(notifs, name) == Cardinality({ i \in DOMAIN notifs : notifs[i].call = name })

\* some error message recorded by the call carries the text m
RecordsError(notifs, m) ==
  \E i \in DOMAIN notifs :
    notifs[i].call = "addErrorMsg" /\ m \in Range(notifs[i].message)

\* the call succeeded: its backend request was made and answered
Succeeded(c) == c.backend = "ok"

\* C1: whenever the backend call of uploadFile, getFile, getPresignedUrlOfFile
\* or deleteFile fails, the operation returns false and nothing is thrown
C1_FailureReturnsFalse ==
  (last.op \in Ops4 /\ last.backend = "failed")
    => (last.outcome = "return" /\ IsFalse(last.ret))

\* a second deleteFile of the same key, refused by the backend as not found
C1_SecondDeleteFails ==
  /\ last.op = "deleteFile"
  /\ last.repeated
  /\ last.backend = "failed"
  /\ last.error = "NoSuchKey"
  /\ last.outcome = "return"
  /\ IsFalse(last.ret)

FirstComma(s) == Min({ i \in 1..Len(s) : s[i] = charCode[","] })
AfterFirstComma(s) == SubSeq(s, FirstComma(s) + 1, Len(s))

\* C2: for every string of the form data:image/<subtype>;base64,<payload>,
\* line breaks in the payload included, the upload body is the base64
\* decoding of exactly the substring after the comma
C2_DataUriPayloadDecoded ==
  (nbody # NotRun /\ nfile.type = "string" /\ base64Reg(nfile.chars))
    => /\ nbody.kind = "Buffer"
       /\ nbody.bytes = Base64Decode(AfterFirstComma(nfile.chars))

\* C3: for every string without the data:image prefix, the upload body is the
\* base64 decoding of the substring after the first comma when there is a
\* comma, line breaks or not, and of the whole string when there is none
C3_FirstCommaSplit ==
  (nbody # NotRun /\ nfile.type = "string" /\ ~base64Reg(nfile.chars))
    => /\ nbody.kind = "Buffer"
       /\ nbody.bytes =
            IF charCode[","] \in Range(nfile.chars)
            THEN Base64Decode(AfterFirstComma(nfile.chars))
            ELSE Base64Decode(nfile.chars)

\* C4: uploadFile (uploadImage in the earlier revision) never throws on its
\* input: it picks the staged-file stream exactly for a non-string with a
\* path and the base64 decode otherwise, goes on to the upload and returns a
\* value
C4_UploadNeverThrows ==
  last.op \in { "uploadFile", "uploadImage" }
    => /\ last.outcome = "return"
       /\ last.backend # "not reached"
       /\ last.args.body.kind \in { "ReadStream", "Buffer" }
       /\ (last.args.body.kind = "ReadStream")
            <=> (last.args.file.type = "object" /\ last.args.file.hasPath
                   /\ last.args.file.path # "")

\* C5 as stated: with the client unconstructed every operation ends in an
\* error that reaches the caller, not in the false sentinel
C5_UnconstructedThrows ==
  (s3 = "undefined" /\ last.op \in Ops4) => last.outcome = "throw"

\* the errors raised for a client that is undefined
ClientErrors == { ClientMissing("send"), ClientMissing("config"), UploadNeedsClient }

\* C5 as amended: when the selector is not BUCKET the client is left
\* unconstructed, and every operation that gets to its backend call in that
\* state sends nothing, catches the error raised for the missing client,
\* records it as an error message, sets the flag to false and returns false
C5_UnconstructedReturnsFalse ==
  /\ (config.STORAGE_TYPE # FILE_UPLOAD_TYPE_BUCKET) => s3 = "undefined"
  /\ (s3 = "undefined" /\ last.op \in Ops4 /\ last.backend # "not reached")
       => /\ last.backend = "no client"
          /\ last.sent = <<>>
          /\ last.outcome = "return"
          /\ IsFalse(last.ret)
          /\ last.error \in ClientErrors
          /\ RecordsError(last.notifs, last.error)
          /\ last.flag = FALSE

\* getFile called on a provider whose client was never constructed
C5_GetFileWithoutClient ==
  /\ config.STORAGE_TYPE = "LOCAL"
  /\ s3 = "undefined"
  /\ last.op = "getFile"
  /\ last.backend = "no client"
  /\ last.error = ClientMissing("send")
  /\ IsFalse(last.ret)

\* C6 as stated: every completed operation records exactly one message, a
\* success or an error one, and sets the flag exactly once to the matching value
C6_ExactlyOneMessage ==
  (last.op \in Ops4 /\ last.outcome = "return")
    => /\ Count(last.notifs, "addSuccessMsg") + Count(last.notifs, "addErrorMsg") = 1
       /\ (Count(last.notifs, "addSuccessMsg") = 1) <=> ~IsFalse(last.ret)
       /\ Count(last.notifs, "isSuccess") = 1
       /\ last.flag = ~IsFalse(last.ret)

\* C6 as amended: an operation that returns records at most one message:
\* one error message exactly when it returns false, one success message
\* exactly when uploadFile or deleteFile succeeds, none when getFile or
\* getPresignedUrlOfFile succeeds; it leaves the flag at the value matching
\* its outcome, written once, except that getFile writes true when the fetch
\* resolves: a second time, false, when the body conversion then fails, and
\* not again when it succeeds, so that the flag is whatever a call that
\* completed during the conversion made it
C6_AtMostOneMessage ==
  (last.op \in Ops4 /\ last.outcome = "return")
    => /\ Count(last.notifs, "addSuccessMsg") + Count(last.notifs, "addErrorMsg") <= 1
       /\ (Count(last.notifs, "addErrorMsg") = 1) <=> IsFalse(last.ret)
       /\ (Count(last.notifs, "addSuccessMsg") = 1)
            <=> (~IsFalse(last.ret) /\ last.op \in { "uploadFile", "deleteFile" })
       /\ FlagAfter(IsFalse(last.ret), last.notifs) = ~IsFalse(last.ret)
       /\ (last.op # "getFile" \/ IsFalse(last.ret)) => last.flag = ~IsFalse(last.ret)
       /\ \/ Count(last.notifs, "isSuccess") = 1
          \/ /\ last.op = "getFile"
             /\ IsFalse(last.ret)
             /\ Count(last.notifs, "isSuccess") = 2
             /\ last.notifs[1].call = "isSuccess"
             /\ last.notifs[1].value

\* a getFile that succeeded: the flag is set, no message is recorded
C6_GetFileSucceedsSilently ==
  /\ last.op = "getFile"
  /\ last.backend = "ok"
  /\ last.ret.t = "string"
  /\ Count(last.notifs, "addSuccessMsg") = 0
  /\ Count(last.notifs, "addErrorMsg") = 0
  /\ Count(last.notifs, "isSuccess") = 1

\* C7: after an inline uploadFile of a key succeeded, and with no upload or
\* delete of the key since, a Get of the key returns the bytes the upload
\* decoded and getFile returns their base64 encoding
C7_RoundTrip ==
  /\ (last.op = "getImage" /\ last.backend = "ok" /\ last.quiet /\ put[last.Key].known)
       => last.ret.o.Body = put[last.Key].bytes
  /\ (last.op = "getFile" /\ last.backend = "ok" /\ last.quiet /\ put[last.Key].known)
       => (last.ret.t = "string" /\ last.ret.s = Base64Encode(put[last.Key].bytes))

\* getFile returns QUJD for a key whose latest upload decoded to ABC
C7_GetFileAfterUpload ==
  /\ last.op = "getFile"
  /\ last.backend = "ok"
  /\ last.quiet
  /\ put[last.Key].known
  /\ put[last.Key].bytes = <<65, 66, 67>>
  /\ last.ret.s = QUJD

\* C8 as stated: the returned value is truthy exactly when the backend call
\* succeeded
C8_TruthyIffSucceeded ==
  (last.op # "none" /\ last.outcome = "return")
    => (Truthy(last.ret) <=> last.backend = "ok")

\* C8 as amended: uploadFile, getFile, getPresignedUrlOfFile and deleteFile
\* (uploadImage and deleteImage in the earlier revision) return the boolean
\* false exactly when the backend call did not succeed (a successful getFile
\* of a zero-length object returns the empty string, which is not truthy),
\* and getImage returns an object whose status is false exactly when it did
\* not succeed (that object is truthy)
C8_FalseIffFailed ==
  /\ (last.op \in Ops4 \cup { "uploadImage", "deleteImage" } /\ last.outcome = "return")
       => (IsFalse(last.ret) <=> last.backend # "ok")
  /\ (last.op = "getFile" /\ last.backend = "ok")
       => (Truthy(last.ret) <=> last.fetched # <<>>)
  /\ last.op = "getImage"
       => /\ last.outcome = "return"
          /\ last.ret.t = "object"
          /\ ("status" \in DOMAIN last.ret.o /\ ~last.ret.o.status)
               <=> last.backend # "ok"

\* a successful getFile of a zero-length object
C8_EmptyObjectFetched ==
  /\ last.op = "getFile"
  /\ last.backend = "ok"
  /\ last.fetched = <<>>
  /\ last.ret.t = "string"
  /\ ~Truthy(last.ret)

\* C9 as stated: whenever the backend call of any operation fails with text
\* m, an error message carrying m is recorded and the flag is false
C9_EveryFailureRecorded ==
  last.backend = "failed"
    => (RecordsError(last.notifs, last.error) /\ last.flag = FALSE)

\* C9 as amended: when the backend call of uploadFile, getFile,
\* getPresignedUrlOfFile or deleteFile (uploadImage or deleteImage in the
\* earlier revision) fails with text m, the operation records one error
\* message carrying m, sets the flag to false and returns false; getImage
\* sets the flag to false and carries m in the object it returns, recording
\* no message
C9_FailureRecorded ==
  /\ (last.op \in Ops4 \cup { "uploadImage", "deleteImage" } /\ last.backend = "failed")
       => /\ RecordsError(last.notifs, last.error)
          /\ Count(last.notifs, "addErrorMsg") = 1
          /\ last.flag = FALSE
          /\ IsFalse(last.ret)
  /\ (last.op = "getImage" /\ last.backend = "failed")
       => /\ Count(last.notifs, "addErrorMsg") = 0
          /\ last.flag = FALSE
          /\ last.error \in Range(last.ret.o.error)

\* deleteFile of a key the backend reports as not found
C9_DeleteMissingKey ==
  /\ last.op = "deleteFile"
  /\ ~store[last.Key].present
  /\ last.error = "NoSuchKey"
  /\ IsFalse(last.ret)
  /\ RecordsError(last.notifs, "NoSuchKey")
  /\ last.flag = FALSE

C10_Request ==
  last.op = "getPresignedUrlOfFile"
    => LET expiry == IF last.args.given THEN last.args.expiresIn ELSE 10
       IN /\ last.backend # "no client"
               => /\ Len(last.sent) = 1
                  /\ last.sent[1].cmd = "getSignedUrl"
                  /\ last.sent[1].command = "GetObjectCommand"
                  /\ last.sent[1].Key = last.Key
                  /\ last.sent[1].expiresIn = expiry
          /\ \A i \in DOMAIN last.sent : last.sent[i].cmd \notin { "send", "getObject" }
          /\ last.backend = "ok" => last.ret.s = SignedUrl(last.Key, expiry)

\* a step of a call of getPresignedUrlOfFile: it starts, or it resumes
PresignStep ==
  \E i \in DOMAIN calls :
    /\ calls'[i] # calls[i]
    /\ "getPresignedUrlOfFile" \in { calls[i].op, calls'[i].op }

\* C10: getPresignedUrlOfFile asks for a signed GET URL whose expiry is the
\* expiresIn passed, 10 when omitted; it fetches no object and leaves the
\* stored objects unchanged
C10_PresignExpiry ==
  /\ []C10_Request
  /\ [][PresignStep => store' = store]_vars

\* a URL signed with the default expiry while the bucket holds an object
C10_DefaultExpiryUsed ==
  /\ last.op = "getPresignedUrlOfFile"
  /\ ~last.args.given
  /\ last.backend = "ok"
  /\ last.sent[1].expiresIn = 10
  /\ store[last.Key].present

\* no call is in flight
Idle == \A i \in DOMAIN calls : ~InFlight(calls[i])

\* C11 as stated: whenever no operation is in flight, the flag equals the
\* outcome of the operation that returned most recently
C11_FlagIsLastCompleted ==
  (Idle /\ completed # 0 /\ last.outcome = "return")
    => flag = Succeeded(last)

\* C11 as amended: whenever no operation is in flight, the flag equals the
\* outcome of the operation that wrote it last; it differs from the outcome
\* of the operation that completed most recently only when another operation
\* wrote the flag later than that one did, that one being a getFile that
\* succeeded (it writes true before it awaits the body conversion and nothing
\* after) or an uploadFile or uploadImage that threw on its input (it writes
\* nothing)
C11_FlagIsLastWriter ==
  /\ (Idle /\ writer.id # 0) => flag = writer.succeeded
  /\ (Idle /\ completed # 0 /\ flag # Succeeded(last))
       => /\ completed # writer.id
          /\ \/ last.op = "getFile" /\ Succeeded(last)
             \/ last.op \in { "uploadFile", "uploadImage" } /\ last.outcome = "throw"

\* a getFile that succeeded last, while the flag holds the failure another
\* call wrote during its body conversion
C11_GetFileOvertaken ==
  /\ Idle
  /\ completed # 0
  /\ writer.id # 0
  /\ completed # writer.id
  /\ last.op = "getFile"
  /\ Succeeded(last)
  /\ ~writer.succeeded
  /\ flag = FALSE

====
